---- MODULE Spec2Model ----
(***************************************************************************)
(* State-machine model of ssh.py: main() resolves a server name to an      *)
(* address through find_server_ip() over the tables of a Confluence page   *)
(* and then runs a retrying ssh loop in bash.                              *)
(*                                                                         *)
(* Text is modelled as a sequence of one-character strings, so that        *)
(* str.strip(), case and numeric parsing are computed, not assumed.        *)
(***************************************************************************)
EXTENDS Naturals, Sequences, FiniteSets

VARIABLES
    pc,           \* position of main(): see the actions below
    server_name,  \* sys.argv[1]
    config,       \* value returned by read_config()
    steps,        \* the stages of main() completed so far, in order
    net,          \* network activity so far (client construction, page fetch)
    out,          \* messages printed so far
    exit_code,    \* process exit status, NoExit while running
    tables,       \* soup.find_all('table') of the fetched page
    idx,          \* position of the for-loop of find_server_ip in tables
    ip_address,   \* value returned by find_server_ip
    launched,     \* number of bash subprocesses started
    sh            \* state of the bash subprocess

vars == <<pc, server_name, config, steps, net, out, exit_code, tables, idx,
          ip_address, launched, sh>>

(***************************************************************************)
(* Bounds of the model.                                                    *)
(***************************************************************************)
\* most tables in a page
MaxTables == 2
\* most data rows in a page, all tables together
MaxRows == 2
\* most failed ssh attempts followed before the attempt is let succeed
MaxFailures == 2

(***************************************************************************)
(* Text.                                                                   *)
(***************************************************************************)
Digits == {"0", "7"}

IsSpace(c) == c = " "

RECURSIVE LStrip(_)
LStrip(s) == IF s # <<>> /\ IsSpace(Head(s)) THEN LStrip(Tail(s)) ELSE s

RECURSIVE RStrip(_)
RStrip(s) ==
    IF s # <<>> /\ IsSpace(s[Len(s)]) THEN RStrip(SubSeq(s, 1, Len(s) - 1)) ELSE s

\* str.strip(): leading and trailing whitespace removed
Strip(s) == RStrip(LStrip(s))

\* Python's None, distinct from every text (texts hold one-character items)
None == <<"None">>

\* Python truthiness of a value that is None or a str
Falsy(v) == v = None \/ v = <<>>

(***************************************************************************)
(* An HTML table and what pd.read_html makes of it.                        *)
(*   hdr  : the texts of the header cells, <<>> when the table has no      *)
(*          header row                                                     *)
(*   rows : the data rows, each the texts of its cells                     *)
(***************************************************************************)
\* pd.read_html(str(table)) raises ValueError: the table holds nothing to parse
ReadHtmlRaises(t) == t.hdr = <<>> /\ t.rows = <<>>

\* df.columns.str raises AttributeError: without a header row the column
\* labels are the integers 0, 1, ... and not text
ColumnsStrRaises(t) == t.hdr = <<>>

\* the text read_html keeps of a cell: surrounding whitespace removed
CellText(x) == Strip(x)

\* df.columns after df.columns.str.strip()
Columns(t) == [j \in 1..Len(t.hdr) |-> Strip(CellText(t.hdr[j]))]

\* name in df.columns
HasColumn(t, name) == \E j \in 1..Len(t.hdr) : Columns(t)[j] = name

\* the position of column name
ColumnOf(t, name) ==
    CHOOSE j \in 1..Len(t.hdr) :
        Columns(t)[j] = name /\ \A k \in 1..(j - 1) : Columns(t)[k] # name

\* the text of each cell of column j as read_html reads it
ColumnTexts(t, j) == [r \in 1..Len(t.rows) |-> CellText(t.rows[r][j])]

IsNumeric(s) == s # <<>> /\ \A i \in 1..Len(s) : s[i] \in Digits

\* the dtype read_html infers for column j: an empty cell is NaN, a column of
\* numbers is int64, or float64 when it holds a NaN, anything else is object
Dtype(t, j) ==
    LET c == ColumnTexts(t, j)
        n == Len(c)
    IN  IF n = 0 THEN "object"
        ELSE IF \A r \in 1..n : c[r] = <<>> THEN "float64"
        ELSE IF \A r \in 1..n : c[r] = <<>> \/ IsNumeric(c[r])
             THEN (IF \E r \in 1..n : c[r] = <<>> THEN "float64" ELSE "int64")
        ELSE "object"

\* the decimal digits of the number a numeric text parses to
RECURSIVE Canon(_)
Canon(s) == IF Len(s) > 1 /\ Head(s) = "0" THEN Canon(Tail(s)) ELSE s

\* str() of the value of row r, column j of the DataFrame
PyStr(t, r, j) ==
    LET text == ColumnTexts(t, j)[r]
        dt   == Dtype(t, j)
    IN  IF text = <<>> THEN <<"n", "a", "n">>
        ELSE IF dt = "int64" THEN Canon(text)
        ELSE IF dt = "float64" THEN Canon(text) \o <<".", "0">>
        ELSE text

\* df[hostname_column].str raises AttributeError: the column is not text
HostnameStrRaises(t, hostname_column) ==
    Dtype(t, ColumnOf(t, hostname_column)) # "object"

\* RowMatches with a fault seeded: the comparison ignores case
RowMatchesIgnoreCase(t, r, hostname_column, name) ==
    LET text == ColumnTexts(t, ColumnOf(t, hostname_column))[r]
        Low(c) == IF c = "W" THEN "w" ELSE c
        Lower(s) == [i \in 1..Len(s) |-> Low(s[i])]
    IN  text # <<>> /\ Lower(Strip(text)) = Lower(name)

\* RowMatches with a fault seeded: the server name is stripped too
RowMatchesStripBoth(t, r, hostname_column, name) ==
    LET text == ColumnTexts(t, ColumnOf(t, hostname_column))[r]
    IN  text # <<>> /\ Strip(text) = Strip(name)

\* df[hostname_column].str.strip() == server_name, at row r (NaN equals nothing)
RowMatches(t, r, hostname_column, name) ==
    LET text == ColumnTexts(t, ColumnOf(t, hostname_column))[r]
    IN  text # <<>> /\ Strip(text) = name

\* the index of server_row: the rows the filter keeps
ServerRow(t, hostname_column, name) ==
    {r \in 1..Len(t.rows) : RowMatches(t, r, hostname_column, name)}

\* Iloc0 with a fault seeded: the last kept row
IlocLast(S) == CHOOSE r \in S : \A q \in S : q <= r

\* .iloc[0]: the first kept row
Iloc0(S) == CHOOSE r \in S : \A q \in S : r <= q

\* ReturnedIp with a fault seeded: the cell is taken from the hostname column
ReturnedIpHostColumn(t, hostname_column, ip_column, name) ==
    Strip(PyStr(t, Iloc0(ServerRow(t, hostname_column, name)),
                ColumnOf(t, hostname_column)))

\* str(server_row[ip_column].iloc[0]).strip()
ReturnedIp(t, hostname_column, ip_column, name) ==
    Strip(PyStr(t, Iloc0(ServerRow(t, hostname_column, name)),
                ColumnOf(t, ip_column)))

(***************************************************************************)
(* The pages the model fetches.                                            *)
(***************************************************************************)
\* the header rows: both labels, written with whitespace around them; the
\* hostname label only; the address label only; no header row
Headers ==
    { <<<<" ", "H">>, <<"I", " ">>>>,
      <<<<"H">>, <<"X">>>>,
      <<<<"X">>, <<"I">>>>,
      <<>> }

\* the data rows, hostname cell then address cell
Rows ==
    { <<<<"w">>, <<"a">>>>,
      <<<<" ", "w", " ">>, <<" ", "b", " ">>>>,
      <<<<"W">>, <<"0", "7">>>>,
      <<<<"7">>, <<>>>> }

\* the names asked for
ServerNames == { <<"w">>, <<" ", "w", " ">> }

\* the sum of a sequence of numbers
RECURSIVE Total(_)
Total(c) == IF Len(c) = 0 THEN 0 ELSE c[1] + Total(SubSeq(c, 2, Len(c)))

\* the page whose i-th table has the header hs[i] and the next counts[i] rows
\* of cells
Page(hs, counts, cells) ==
    [i \in 1..Len(hs) |->
        LET before == Total(SubSeq(counts, 1, i - 1))
        IN  [hdr  |-> hs[i],
             rows |-> SubSeq(cells, before + 1, before + counts[i])]]

(***************************************************************************)
(* config.yaml as yaml.safe_load returns it.                               *)
(***************************************************************************)
YNull == [type |-> "null"]

YMap(f) == [type |-> "map", items |-> f]

required_fields == <<"url", "page_id", "hostname_column_title", "ip_column_title">>

FullSection ==
    [url                   |-> <<"u">>,
     page_id               |-> <<"p">>,
     hostname_column_title |-> <<"H">>,
     ip_column_title       |-> <<"I">>]

Section(S) == YMap([k \in S |-> FullSection[k]])

\* an empty file, a file without the section, a section without content,
\* a section with any of the fields
Configs ==
    {YNull, YMap([other |-> YNull]), YMap([confluence |-> YNull])}
    \cup {YMap([confluence |-> Section(S)]) : S \in SUBSET DOMAIN FullSection}

\* 'confluence' not in config / field not in config['confluence'] raise
\* TypeError when the right-hand side is None
InRaises(y) == y.type # "map"

In(k, y) == k \in DOMAIN y.items

\* the first required field the section lacks, 0 when it has them all
FirstMissing(section) ==
    LET miss == {i \in 1..Len(required_fields) : ~In(required_fields[i], section)}
    IN  IF miss = {} THEN 0 ELSE CHOOSE i \in miss : \A j \in miss : i <= j

hostname_column == config.items.confluence.items.hostname_column_title

ip_column == config.items.confluence.items.ip_column_title

(***************************************************************************)
(* main().                                                                 *)
(***************************************************************************)
\* the process: running, or exited with a status
Running == [exited |-> FALSE]

Exited(status) == [exited |-> TRUE, status |-> status]

MissingMsg ==
    [url                   |-> "Error: 'url' missing in confluence configuration",
     page_id               |-> "Error: 'page_id' missing in confluence configuration",
     hostname_column_title |->
         "Error: 'hostname_column_title' missing in confluence configuration",
     ip_column_title       |->
         "Error: 'ip_column_title' missing in confluence configuration"]

Init ==
    /\ pc = "args"
    /\ server_name = None
    /\ config = YNull
    /\ steps = <<>>
    /\ net = <<>>
    /\ out = <<>>
    /\ exit_code = Running
    /\ tables = <<>>
    /\ idx = 0
    /\ ip_address = None
    /\ launched = 0
    /\ sh = [pc |-> "none", failures |-> 0, sleeps |-> 0, echoes |-> <<>>]

\* Exit1 with a fault seeded: the status is 0
Exit0(msg) ==
    /\ out' = Append(out, msg)
    /\ exit_code' = Exited(0)
    /\ pc' = "exited"

\* sys.exit(1) after printing msg
Exit1(msg) ==
    /\ out' = Append(out, msg)
    /\ exit_code' = Exited(1)
    /\ pc' = "exited"

\* an exception nothing catches: the traceback is printed, the status is 1
Uncaught(exc) == Exit1(exc)

\* len(sys.argv) != 2
ArgsWrong ==
    /\ pc = "args"
    /\ \E argc \in {1, 3} : Exit1("Usage: python script.py <server-name>")
    /\ UNCHANGED <<server_name, config, steps, net, tables, idx, ip_address,
                   launched, sh>>

\* server_name = sys.argv[1]
ArgsOk ==
    /\ pc = "args"
    /\ \E name \in ServerNames : server_name' = name
    /\ steps' = Append(steps, "args")
    /\ pc' = "read_config"
    /\ UNCHANGED <<config, net, out, exit_code, tables, idx, ip_address,
                   launched, sh>>

\* read_config(): config.yaml is not there, or is not YAML
ReadConfigFails ==
    /\ pc = "read_config"
    /\ \E msg \in {"Error: config.yaml file not found", "Error parsing config.yaml"} :
           Exit1(msg)
    /\ UNCHANGED <<server_name, config, steps, net, tables, idx, ip_address,
                   launched, sh>>

\* read_config() returns yaml.safe_load(file)
ReadConfigOk ==
    /\ pc = "read_config"
    /\ \E c \in Configs : config' = c
    /\ steps' = Append(steps, "read_config")
    /\ pc' = "validate_config"
    /\ UNCHANGED <<server_name, net, out, exit_code, tables, idx, ip_address,
                   launched, sh>>

\* validate_config(config)
ValidateConfig ==
    /\ pc = "validate_config"
    /\ IF InRaises(config)
       THEN Uncaught("TypeError") /\ UNCHANGED steps
       ELSE IF ~In("confluence", config)
       THEN Exit1("Error: 'confluence' section missing in config.yaml")
            /\ UNCHANGED steps
       ELSE IF InRaises(config.items.confluence)
       THEN Uncaught("TypeError") /\ UNCHANGED steps
       ELSE LET m == FirstMissing(config.items.confluence)
            IN  IF m # 0
                THEN Exit1(MissingMsg[required_fields[m]]) /\ UNCHANGED steps
                ELSE /\ steps' = Append(steps, "validate_config")
                     /\ pc' = "print_config"
                     /\ UNCHANGED <<out, exit_code>>
    /\ UNCHANGED <<server_name, config, net, tables, idx, ip_address, launched, sh>>

\* print_config(config)
PrintConfig ==
    /\ pc = "print_config"
    /\ out' = Append(out, "Confluence URL, Page ID, Hostname Column, IP Column")
    /\ steps' = Append(steps, "print_config")
    /\ pc' = "credentials"
    /\ UNCHANGED <<server_name, config, net, exit_code, tables, idx, ip_address,
                   launched, sh>>

\* authenticate_confluence(): OKTA_USER, OKTA_PASSWORD from the environment
Credentials ==
    /\ pc = "credentials"
    /\ \E okta_user \in BOOLEAN, okta_password \in BOOLEAN :
           IF ~okta_user \/ ~okta_password
           THEN Exit1("Error: OKTA_USER or OKTA_PASSWORD environment variables not set")
                /\ UNCHANGED steps
           ELSE /\ steps' = Append(steps, "credentials")
                /\ pc' = "client"
                /\ UNCHANGED <<out, exit_code>>
    /\ UNCHANGED <<server_name, config, net, tables, idx, ip_address, launched, sh>>

\* authenticate_confluence(): Confluence(url, username, password)
Client ==
    /\ pc = "client"
    /\ net' = Append(net, "Confluence")
    /\ \E raises \in BOOLEAN :
           IF raises
           THEN Exit1("Error authenticating to Confluence") /\ UNCHANGED steps
           ELSE /\ steps' = Append(steps, "client")
                /\ pc' = "get_page"
                /\ UNCHANGED <<out, exit_code>>
    /\ UNCHANGED <<server_name, config, tables, idx, ip_address, launched, sh>>

\* get_page_content(): confluence.get_page_by_id raises
GetPageFails ==
    /\ pc = "get_page"
    /\ net' = Append(net, "get_page_by_id")
    /\ Exit1("Error retrieving page content")
    /\ UNCHANGED <<server_name, config, steps, tables, idx, ip_address, launched, sh>>

\* get_page_content() returns the page, of at most MaxTables tables holding
\* at most MaxRows rows together; find_server_ip() is entered and
\* tables = soup.find_all('table')
GetPageOk ==
    /\ pc = "get_page"
    /\ net' = Append(net, "get_page_by_id")
    /\ \E n \in 0..MaxTables : \E counts \in [1..n -> 0..MaxRows] :
           /\ Total(counts) <= MaxRows
           /\ \E hs \in [1..n -> Headers] : \E cells \in [1..Total(counts) -> Rows] :
                  tables' = Page(hs, counts, cells)
    /\ idx' = 1
    /\ steps' = Append(steps, "get_page")
    /\ pc' = "for_table"
    /\ UNCHANGED <<server_name, config, out, exit_code, ip_address, launched, sh>>

(***************************************************************************)
(* find_server_ip(): one action per way an iteration of the loop ends.     *)
(***************************************************************************)
InLoop == pc = "for_table" /\ idx <= Len(tables)

\* find_server_ip returns v to main
Return(v) ==
    /\ ip_address' = v
    /\ steps' = Append(steps, "find_server_ip")
    /\ pc' = "check"

\* ExceptException with a fault seeded: the table is skipped
ExceptExceptionContinue ==
    /\ idx' = idx + 1
    /\ UNCHANGED <<pc, server_name, config, steps, net, out, exit_code, tables,
                   ip_address, launched, sh>>

\* except Exception as e: print(...); return None
ExceptException ==
    /\ out' = Append(out, "Error parsing table data")
    /\ Return(None)
    /\ UNCHANGED <<server_name, config, net, exit_code, tables, idx, launched, sh>>

\* NextTable with a fault seeded: the scan ends with None
NextTableReturnNone ==
    /\ Return(None)
    /\ UNCHANGED <<server_name, config, net, out, exit_code, tables, idx,
                   launched, sh>>

\* except KeyError: continue, and the end of an iteration without a match
NextTable ==
    /\ idx' = idx + 1
    /\ UNCHANGED <<pc, server_name, config, steps, net, out, exit_code, tables,
                   ip_address, launched, sh>>

\* pd.read_html(str(table)) raises
TableReadHtmlRaises ==
    /\ InLoop
    /\ ReadHtmlRaises(tables[idx])
    /\ ExceptException

\* df.columns.str.strip() raises
TableColumnsRaise ==
    /\ InLoop
    /\ ~ReadHtmlRaises(tables[idx])
    /\ ColumnsStrRaises(tables[idx])
    /\ ExceptException

Parsed(t) == ~ReadHtmlRaises(t) /\ ~ColumnsStrRaises(t)

\* df[hostname_column] raises KeyError
TableHostnameKeyError ==
    /\ InLoop
    /\ Parsed(tables[idx])
    /\ ~HasColumn(tables[idx], hostname_column)
    /\ NextTable

\* df[hostname_column].str raises
TableHostnameStrRaises ==
    /\ InLoop
    /\ Parsed(tables[idx])
    /\ HasColumn(tables[idx], hostname_column)
    /\ HostnameStrRaises(tables[idx], hostname_column)
    /\ ExceptException

Filtered(t) ==
    /\ Parsed(t)
    /\ HasColumn(t, hostname_column)
    /\ ~HostnameStrRaises(t, hostname_column)

\* server_row.empty
TableNoMatch ==
    /\ InLoop
    /\ Filtered(tables[idx])
    /\ ServerRow(tables[idx], hostname_column, server_name) = {}
    /\ NextTable

\* server_row[ip_column] raises KeyError
TableIpKeyError ==
    /\ InLoop
    /\ Filtered(tables[idx])
    /\ ServerRow(tables[idx], hostname_column, server_name) # {}
    /\ ~HasColumn(tables[idx], ip_column)
    /\ NextTable

\* return str(ip_address).strip()
TableReturnIp ==
    /\ InLoop
    /\ Filtered(tables[idx])
    /\ ServerRow(tables[idx], hostname_column, server_name) # {}
    /\ HasColumn(tables[idx], ip_column)
    /\ Return(ReturnedIp(tables[idx], hostname_column, ip_column, server_name))
    /\ UNCHANGED <<server_name, config, net, out, exit_code, tables, idx,
                   launched, sh>>

\* the loop is over: return None
LoopExhausted ==
    /\ pc = "for_table"
    /\ idx > Len(tables)
    /\ Return(None)
    /\ UNCHANGED <<server_name, config, net, out, exit_code, tables, idx,
                   launched, sh>>

(***************************************************************************)
(* main(), after the lookup.                                               *)
(***************************************************************************)
\* if not ip_address: print(...); sys.exit(1)
CheckNotFound ==
    /\ pc = "check"
    /\ Falsy(ip_address)
    /\ Exit1("Server not found")
    /\ UNCHANGED <<server_name, config, steps, net, tables, idx, ip_address,
                   launched, sh>>

\* CheckFound with a fault seeded: the result is not tested
CheckFoundUntested ==
    /\ pc = "check"
    /\ out' = Append(out, "IP Address for")
    /\ pc' = "run_bash"
    /\ UNCHANGED <<server_name, config, steps, net, exit_code, tables, idx,
                   ip_address, launched, sh>>

\* print(f"IP Address for {server_name}: {ip_address}")
CheckFound ==
    /\ pc = "check"
    /\ ~Falsy(ip_address)
    /\ out' = Append(out, "IP Address for")
    /\ pc' = "run_bash"
    /\ UNCHANGED <<server_name, config, steps, net, exit_code, tables, idx,
                   ip_address, launched, sh>>

\* the text of command, line by line, each line a sequence of words; the
\* string literal ends at the first three quotes, so its last line keeps the
\* quote that opens "Connection established. and not one that closes it
command(ip) ==
    << <<"while", "!", "ssh">> \o ip \o <<";", "do">>,
       <<"echo", "\"", "Connection failed, retrying in 5 seconds...", "\"">>,
       <<"sleep", "5">>,
       <<"done">>,
       <<"echo", "\"", "Connection established.">> >>

\* f'{command}; exec bash'
script(ip) ==
    LET c == command(ip)
        n == Len(c)
    IN  [c EXCEPT ![n] = c[n] \o <<";", "exec", "bash">>]

\* the delay of the loop, sleep 5
RetryDelay == 5

\* the number of double quotes of a line
RECURSIVE Quotes(_)
Quotes(line) ==
    IF line = <<>> THEN 0
    ELSE (IF Head(line) = "\"" THEN 1 ELSE 0) + Quotes(Tail(line))

\* bash: unexpected EOF while looking for matching quote
Unterminated(line) == Quotes(line) % 2 = 1

\* subprocess.run(['/bin/bash', '-i', '-c', ...]): bash starts on the loop
Launch ==
    /\ pc = "run_bash"
    /\ launched' = launched + 1
    /\ sh' = [sh EXCEPT !.pc = "ssh"]
    /\ steps' = Append(steps, "subprocess.run")
    /\ pc' = "wait"
    /\ UNCHANGED <<server_name, config, net, out, exit_code, tables, idx, ip_address>>

\* while ! ssh ip: the attempt fails
SshFails ==
    /\ pc = "wait"
    /\ sh.pc = "ssh"
    /\ sh.failures < MaxFailures
    /\ sh' = [sh EXCEPT !.pc = "echo", !.failures = @ + 1]
    /\ UNCHANGED <<pc, server_name, config, steps, net, out, exit_code, tables,
                   idx, ip_address, launched>>

\* echo "Connection failed, retrying in 5 seconds..."
EchoFailed ==
    /\ pc = "wait"
    /\ sh.pc = "echo"
    /\ sh' = [sh EXCEPT !.pc = "sleep", !.echoes = Append(@, script(ip_address)[2][3])]
    /\ UNCHANGED <<pc, server_name, config, steps, net, out, exit_code, tables,
                   idx, ip_address, launched>>

\* sleep 5; done
Sleep ==
    /\ pc = "wait"
    /\ sh.pc = "sleep"
    /\ sh' = [sh EXCEPT !.pc = "ssh", !.sleeps = @ + RetryDelay]
    /\ UNCHANGED <<pc, server_name, config, steps, net, out, exit_code, tables,
                   idx, ip_address, launched>>

\* while ! ssh ip: the attempt succeeds and the loop ends
SshSucceeds ==
    /\ pc = "wait"
    /\ sh.pc = "ssh"
    /\ sh' = [sh EXCEPT !.pc = "after_loop"]
    /\ UNCHANGED <<pc, server_name, config, steps, net, out, exit_code, tables,
                   idx, ip_address, launched>>

\* bash reads the command after the loop: echo ...; exec bash
AfterLoop ==
    /\ pc = "wait"
    /\ sh.pc = "after_loop"
    /\ LET rest == script(ip_address)[Len(script(ip_address))]
       IN  IF Unterminated(rest)
           THEN sh' = [sh EXCEPT !.pc = "syntax_error"]
           ELSE sh' = [sh EXCEPT !.pc = "exec bash", !.echoes = Append(@, rest[3])]
    /\ UNCHANGED <<pc, server_name, config, steps, net, out, exit_code, tables,
                   idx, ip_address, launched>>

\* bash is over (the syntax error, or the interactive shell was left):
\* subprocess.run returns and so does main
ProcessReturns ==
    /\ pc = "wait"
    /\ sh.pc \in {"syntax_error", "exec bash"}
    /\ exit_code' = Exited(0)
    /\ pc' = "exited"
    /\ UNCHANGED <<server_name, config, steps, net, out, tables, idx, ip_address,
                   launched, sh>>

Next ==
    \/ ArgsWrong
    \/ ArgsOk
    \/ ReadConfigFails
    \/ ReadConfigOk
    \/ ValidateConfig
    \/ PrintConfig
    \/ Credentials
    \/ Client
    \/ GetPageFails
    \/ GetPageOk
    \/ TableReadHtmlRaises
    \/ TableColumnsRaise
    \/ TableHostnameKeyError
    \/ TableHostnameStrRaises
    \/ TableNoMatch
    \/ TableIpKeyError
    \/ TableReturnIp
    \/ LoopExhausted
    \/ CheckNotFound
    \/ CheckFound
    \/ Launch
    \/ SshFails
    \/ EchoFailed
    \/ Sleep
    \/ SshSucceeds
    \/ AfterLoop
    \/ ProcessReturns

Spec == Init /\ [][Next]_vars

(***************************************************************************)
(* The vocabulary of the properties, stated on the page as it is written   *)
(* (header and cell texts), not on the DataFrame.                          *)
(***************************************************************************)
\* stage s of main() has completed
Did(s) == \E i \in 1..Len(steps) : steps[i] = s

Printed(msg) == \E i \in 1..Len(out) : out[i] = msg

\* find_server_ip has just returned to main: ip_address holds its result
Returned == pc = "check"

\* find_server_ip has returned, now or earlier
LookedUp == Did("find_server_ip")

\* table t has a header cell that reads name once trimmed
HasHeader(t, name) == \E j \in 1..Len(t.hdr) : Strip(t.hdr[j]) = name

Col(t, name) == CHOOSE j \in 1..Len(t.hdr) : Strip(t.hdr[j]) = name

BothHeaders(t) == HasHeader(t, hostname_column) /\ HasHeader(t, ip_column)

\* a table with a header row that lacks a required header
LacksHeader(t) == t.hdr # <<>> /\ ~BothHeaders(t)

\* some cell of column j is neither empty nor a number, or there is no row:
\* the column is read as text
TextColumn(t, j) ==
    \/ t.rows = <<>>
    \/ \E r \in 1..Len(t.rows) :
           LET x == Strip(t.rows[r][j])
           IN  x # <<>> /\ \E i \in 1..Len(x) : x[i] \notin Digits

\* a malformed table: it has no header row to parse, or its hostname cells
\* are not text
Malformed(t) ==
    \/ t.hdr = <<>>
    \/ HasHeader(t, hostname_column) /\ ~TextColumn(t, Col(t, hostname_column))

\* the rows whose hostname cell, trimmed, is the server name as given
MatchingRows(t) ==
    IF HasHeader(t, hostname_column)
    THEN {r \in 1..Len(t.rows) :
              Strip(t.rows[r][Col(t, hostname_column)]) = server_name}
    ELSE {}

\* the rows whose hostname cell, trimmed, is the trimmed server name
MatchingRowsTrimmed(t) ==
    IF HasHeader(t, hostname_column)
    THEN {r \in 1..Len(t.rows) :
              Strip(t.rows[r][Col(t, hostname_column)]) = Strip(server_name)}
    ELSE {}

BothAndMatch(t) == BothHeaders(t) /\ MatchingRows(t) # {}

FirstRow(S) == CHOOSE r \in S : \A q \in S : r <= q

\* the address cell of row r, trimmed
TrimmedAddress(t, r) == Strip(t.rows[r][Col(t, ip_column)])

\* the address of row r as the DataFrame holds it, through str() and strip()
Extracted(t, r) == Strip(PyStr(t, r, Col(t, ip_column)))

\* tables[i] is the only table with both headers, and one row of it matches
OnlyTableOneRow(i) ==
    /\ BothHeaders(tables[i])
    /\ \A k \in 1..Len(tables) : k # i => ~BothHeaders(tables[k])
    /\ Cardinality(MatchingRows(tables[i])) = 1

NoneMalformedBefore(i) == \A k \in 1..(i - 1) : ~Malformed(tables[k])

OneGoodTable ==
    /\ Len(tables) = 1
    /\ BothHeaders(tables[1])
    /\ ~Malformed(tables[1])

\* C2, as claimed: the match is case-sensitive and trims both the hostname
\* cell and the queried server name before comparing them.
C2_Original ==
    (Returned /\ OneGoodTable) =>
        (ip_address # None <=> MatchingRowsTrimmed(tables[1]) # {})

\* C2, amended: the match is case-sensitive and trims the hostname cell only;
\* the queried server name is compared as given, so a name written with
\* surrounding whitespace matches no cell.
C2_CellTrimmedNameAsGiven ==
    (Returned /\ OneGoodTable) =>
        /\ ip_address # None <=> MatchingRows(tables[1]) # {}
        /\ server_name # Strip(server_name) => ip_address = None

\* the name ' w ' is looked up in a table that lists 'w', and is not found
C2_Witness ==
    /\ Returned
    /\ OneGoodTable
    /\ server_name # Strip(server_name)
    /\ MatchingRowsTrimmed(tables[1]) # {}
    /\ ip_address = None

(***************************************************************************)
(* C3                                                                      *)
(***************************************************************************)
\* tables[i] is malformed and the first table at which the scan can end:
\* no table before it is malformed or has both headers and a matching row
FirstMalformed(i) ==
    /\ Malformed(tables[i])
    /\ \A k \in 1..(i - 1) : ~Malformed(tables[k]) /\ ~BothAndMatch(tables[k])

\* C3, as claimed: a malformed table is skipped and the scan goes on, so the
\* result is absent only if no table has both headers and a matching row.
C3_Original ==
    (Returned /\ \E i \in 1..Len(tables) : Malformed(tables[i])) =>
        ((\E j \in 1..Len(tables) : BothAndMatch(tables[j])) => ip_address # None)

\* C3, amended: a malformed table does not make find_server_ip raise, but it
\* ends the scan: "Error parsing table data" is printed and absent is
\* returned at that table, whatever the following tables hold.
C3_MalformedEndsScan ==
    Returned =>
        \A i \in 1..Len(tables) :
            FirstMalformed(i) =>
                /\ ip_address = None
                /\ idx = i
                /\ Printed("Error parsing table data")

\* a malformed table followed by a table with both headers and a matching
\* row: the result is absent
C3_Witness ==
    /\ Returned
    /\ \E i \in 1..Len(tables) : \E j \in (i + 1)..Len(tables) :
           FirstMalformed(i) /\ BothAndMatch(tables[j])
    /\ ip_address = None
    /\ pc = "check"

(***************************************************************************)
(* C4                                                                      *)
(***************************************************************************)
\* tables[i] is the first table with both headers and a matching row
FirstBothAndMatch(i) ==
    /\ BothAndMatch(tables[i])
    /\ \A k \in 1..(i - 1) : ~BothAndMatch(tables[k])

C6_AbsentWithoutMatch ==
    Returned =>
        /\ tables = <<>> => ip_address = None
        /\ (\A i \in 1..Len(tables) : MatchingRowsTrimmed(tables[i]) = {})
               => ip_address = None

\* a table with both headers that lists other hostnames only
C6_Witness ==
    /\ Returned
    /\ Len(tables) = 1
    /\ BothHeaders(tables[1])
    /\ ~Malformed(tables[1])
    /\ tables[1].rows # <<>>
    /\ MatchingRowsTrimmed(tables[1]) = {}
    /\ ip_address = None

(***************************************************************************)
(* C7                                                                      *)
(***************************************************************************)
Last(q) == q[Len(q)]

ExitedWith(n) == pc = "exited" /\ exit_code = Exited(n)

\* config.yaml, as parsed, has no 'confluence' section
LacksSection == config.type # "map" \/ "confluence" \notin DOMAIN config.items

\* the 'confluence' section has no field f
LacksField(f) ==
    \/ config.items.confluence.type # "map"
    \/ f \notin DOMAIN config.items.confluence.items

\* the process ended in validate_config
EndedInValidate ==
    pc = "exited" /\ Did("read_config") /\ ~Did("validate_config")

\* the process ended in read_config
EndedInRead == pc = "exited" /\ Did("args") /\ ~Did("read_config")

\* the process ended at the check of the credentials
EndedAtCredentials ==
    pc = "exited" /\ Did("print_config") /\ ~Did("credentials")

\* no network activity before the configuration and the credentials are
\* validated, and none at all when either is found wanting
NoNetworkBeforeValidation ==
    /\ net # <<>> => Did("validate_config") /\ Did("credentials")
    /\ (EndedInRead \/ EndedInValidate \/ EndedAtCredentials)
           => net = <<>> /\ exit_code = Exited(1)

\* C7, as claimed: no network activity happens before configuration and
\* credentials are validated, and a missing or malformed config.yaml, a
\* missing section, a missing field and missing credentials each end the
\* process with the message of that cause and a non-zero status.
C7_Original ==
    /\ NoNetworkBeforeValidation
    /\ EndedInRead =>
           Last(out) \in {"Error: config.yaml file not found", "Error parsing config.yaml"}
    /\ EndedInValidate =>
           IF LacksSection
           THEN Last(out) = "Error: 'confluence' section missing in config.yaml"
           ELSE \E i \in 1..Len(required_fields) :
                    /\ LacksField(required_fields[i])
                    /\ \A k \in 1..(i - 1) : ~LacksField(required_fields[k])
                    /\ Last(out) = MissingMsg[required_fields[i]]
    /\ EndedAtCredentials =>
           Last(out) = "Error: OKTA_USER or OKTA_PASSWORD environment variables not set"

(***************************************************************************)
(* C8                                                                      *)
(***************************************************************************)
\* C8: the exit status is 0 exactly when the address was found and the
\* session was launched, and 1 on every other path.
C8_ExitStatus ==
    /\ pc # "exited" => exit_code = Running
    /\ pc = "exited" =>
           /\ exit_code \in {Exited(0), Exited(1)}
           /\ exit_code = Exited(0)
                  <=> (LookedUp /\ ~Falsy(ip_address) /\ launched = 1)

\* a run that found the address, launched the session and ended with status 0
C8_Witness == ExitedWith(0) /\ LookedUp /\ ~Falsy(ip_address) /\ launched = 1

(***************************************************************************)
(* C9                                                                      *)
(***************************************************************************)
\* C9, as claimed: every failed attempt is followed by its message and a
\* delay of 5 seconds before the next attempt, and once an attempt succeeds
\* the loop ends and 'exec bash' is reached.
C9_Original ==
    /\ sh.pc = "ssh" =>
           /\ sh.sleeps = RetryDelay * sh.failures
           /\ Len(sh.echoes) = sh.failures
    /\ sh.pc \notin {"none", "ssh", "echo", "sleep", "after_loop"} => sh.pc = "exec bash"

(***************************************************************************)
(* C10                                                                     *)
(***************************************************************************)
\* the stages of main, in the order of the code
Stages ==
    <<"args", "read_config", "validate_config", "print_config", "credentials",
      "client", "get_page", "find_server_ip", "subprocess.run">>

\* C10: bash is started at most once, and only after the argument check,
\* the validation of the configuration, the credential check, the page fetch
\* and a lookup that returned a non-empty address, in that order; when the
\* lookup returns None or an empty string, "Server not found" is printed and
\* no subprocess is started.
C10_LaunchOnceAfterLookup ==
    /\ launched <= 1
    /\ steps = SubSeq(Stages, 1, Len(steps))
    /\ launched = 1 => Did("subprocess.run") /\ ~Falsy(ip_address)
    /\ (LookedUp /\ Falsy(ip_address)) =>
           /\ launched = 0
           /\ pc = "exited" => Last(out) = "Server not found" /\ exit_code = Exited(1)

\* a run in which the lookup found nothing and the process ended without a
\* subprocess
C10_Witness ==
    /\ LookedUp
    /\ Falsy(ip_address)
    /\ pc = "exited"
    /\ launched = 0
    /\ Last(out) = "Server not found"

====
